---------------------------- MODULE Spec2Model ----------------------------
(***************************************************************************)
(* PawnStar: the ChessBot poller (chessbot.py), its board reconstruction   *)
(* and the calls the presentation layer (gui.py) makes on it.              *)
(*                                                                         *)
(* Time is counted in half seconds: an interval of 2.0 s is 4.             *)
(* The chess rules library and the page are external: a move token is      *)
(* legal when it belongs to the side to move and has not been played, and  *)
(* a scrape returns any of the sequences of Pages.                         *)
(***************************************************************************)
EXTENDS Integers, Sequences, FiniteSets, TLC

(* ------------------------------ bounds --------------------------------- *)

\* Longest move list the page shows.
MaxLen == 2

\* Worker threads start_auto_update may create in one run.
MaxWorkers == 2

\* The poller's error counter is followed up to this value and stays there:
\* the code only compares it with max_errors.
MaxErrorCount == 5

\* Engine processes that can exist or be referred to at one time.
MaxProcs == 3

\* Depth at which _analyze_position stops calling itself (Python's
\* recursion limit, scaled down).
MaxRestarts == 2

\* The longest list of arbitrary tokens a scrape returns.
MaxTokens == 3

\* The longest principal variation in an engine's response.
MaxPv == 3

\* The longest time_limit asked of get_best_move, in tenths of a second.
MaxTimeLimit == 110

(* ------------------------- program constants --------------------------- *)

\* max_errors = 5
max_errors == 5

\* min_update_interval = 1.0 (seconds), in half seconds
min_update_interval == 2

\* the 10.0 of min(self.auto_update_interval * 3, 10.0), in half seconds
max_wait_time == 20

\* the 3 of min(self.auto_update_interval * 3, 10.0)
backoff_factor == 3

\* self.auto_update_interval = 2.0, in half seconds
default_interval == 4

\* Engine time budgets are in tenths of a second.
\* max(0.1, min(time_limit, 10.0))
min_time_limit == 1
max_time_limit == 100

\* chess.engine.Limit(time=min(time_limit, 3.0), depth=15)
engine_time_cap == 30

\* self._analyze_position(min(time_limit, 1.0))
restart_time_cap == 10

\* self.get_best_move(time_limit=1.5) of the poller, self.analysis_time =
\* 2.0 of the GUI
auto_suggest_time_limit == 15
default_analysis_time == 20

\* last_moves_hash = None; hash(...) if current_moves else None
NoneHash == 0 - 1

\* No tick of the worker has scraped yet.
NoScrape == 0 - 2

\* Poll intervals, in half seconds: 0.5 s (start_auto_update takes any
\* float), the default 2.0 s, and 10.0 s, the top of the GUI slider.
Intervals == {1, default_interval, max_wait_time}

\* update_interval_slider: from_=1.0, to=10.0
SliderValues == {v \in Intervals : v >= 2 /\ v <= 20}

Callbacks == {"None", "onBoardUpdated"}
SuggestionCallbacks == {"None", "onSuggestion"}
Colors == {"white", "black"}

(* ------------------------------ chess ---------------------------------- *)

Game == <<"e4", "e5", "Nf3", "Nc6", "Bb5">>
WhiteTokens == {"e4", "Nf3", "Bb5"}
BlackTokens == {"e5", "Nc6"}
JunkToken == "zz"
Tokens == WhiteTokens \union BlackTokens \union {JunkToken}

Range(s) == {s[i] : i \in 1..Len(s)}
Min(a, b) == IF a <= b THEN a ELSE b

Prefix(n) == SubSeq(Game, 1, Min(n, Len(Game)))

\* What a scrape can return: nothing, the game so far, or the game so far
\* followed by a token that does not parse.
Pages ==
    {Prefix(n) : n \in 0..MaxLen}
        \union {Append(Prefix(n), JunkToken) : n \in 0..(MaxLen - 1)}

\* chess.Board(): the standard initial position, white (True) to move.
InitBoard == [stack |-> <<>>, turn |-> TRUE]

\* board.parse_san(tok) succeeds: tok is a move of the side to move that
\* the position still allows.
Legal(b, tok) ==
    /\ tok \in (IF b.turn THEN WhiteTokens ELSE BlackTokens)
    /\ tok \notin Range(b.stack)

\* board.push(move)
Push(b, tok) == [stack |-> Append(b.stack, tok), turn |-> ~b.turn]

LegalMoves(b) == {tok \in Tokens : Legal(b, tok)}

\* The replay loop of update_board_from_moves run alone on a fresh board:
\* from board b, the tokens of s from index i on.
RECURSIVE ReplayFrom(_, _, _)
ReplayFrom(b, s, i) ==
    IF i > Len(s) THEN b
    ELSE IF Legal(b, s[i]) THEN ReplayFrom(Push(b, s[i]), s, i + 1)
    ELSE ReplayFrom(b, s, i + 1)

Replay(s) == ReplayFrom(InitBoard, s, 1)

(* --------------------------- fingerprints ------------------------------ *)

TokenCode(tok) ==
    CASE tok = "e4" -> 1 [] tok = "e5" -> 2 [] tok = "Nf3" -> 3
      [] tok = "Nc6" -> 4 [] tok = "Bb5" -> 5 [] OTHER -> 6

\* hash(tuple(moves)): a fold over the tokens in order.
RECURSIVE TupleHash(_)
TupleHash(s) ==
    IF Len(s) = 0 THEN 7
    ELSE (TupleHash(SubSeq(s, 1, Len(s) - 1)) * 31 + TokenCode(s[Len(s)])) % 65521

\* hash(tuple(moves)) if moves else None
MovesHash(s) == IF Len(s) = 0 THEN NoneHash ELSE TupleHash(s)

(* ------------------------------ state ---------------------------------- *)

\* self.engine = None
NoEngine == 0

\* The engine processes popen_uci can have spawned.
ProcIds == 1..MaxProcs

Workers == 1..MaxWorkers
GuiThread == 0
Threads == Workers \union {GuiThread}

VARIABLES
    \* ChessBot fields
    driver, board, engine, user_color, move_history, initial_board_set,
    auto_update_enabled, auto_update_thread, auto_update_interval,
    update_callback, auto_suggest_moves, suggestion_callback, stop_event,
    \* threads
    pc, wk, ub, ret, in_gbm,
    \* the caller of the ChessBot API
    client_pc, start_result,
    \* the engine processes, the threads' calls of the engine, the browser
    \* session, the presentation widgets
    live_procs, an, session_lost, widget_access,
    \* how the caller's last set_user_color ended
    set_color_result,
    \* how the caller's last open_chess_com ended
    open_result,
    \* ChessGUI: the state of its three buttons, and is_browser_open
    gui,
    \* the move list the chess.com page shows, where a specification
    \* follows it
    page

botVars == <<driver, board, engine, user_color, move_history,
             initial_board_set, auto_update_enabled, auto_update_thread,
             auto_update_interval, update_callback, auto_suggest_moves,
             suggestion_callback, stop_event>>
auxVars == <<live_procs, an, session_lost, widget_access, set_color_result,
             open_result, gui, page>>
vars == <<botVars, pc, wk, ub, ret, in_gbm, client_pc, start_result, auxVars>>

\* The locals of _auto_update_worker, what the tick has done so far, and
\* the ticks in a row on which update_board_from_moves has raised.
InitWorker ==
    [last_move_count |-> 0, last_moves_hash |-> NoneHash, error_count |-> 0,
     time_since_last_update |-> min_update_interval, wait_time |-> 0,
     scrape_hash |-> NoScrape, repeat |-> "no", outcome |-> "none",
     cb_fired |-> FALSE, sug_fired |-> FALSE, error_sink |-> "none",
     failed_ticks |-> 0]

NoUb == [moves |-> <<>>, i |-> 0, applied |-> <<>>]
NoRet == [raised |-> FALSE, board |-> InitBoard, moves |-> <<>>]

\* The fields of an engine response that _format_move_info copies.
AuxFields == {"score", "depth", "nodes", "time"}

\* {}: a response with no field at all.
EmptyResult == [aux |-> [k \in {} |-> "reported"], pv |-> <<>>]

\* No info dictionary yet.
NoInfo ==
    [move_uci |-> "", move_san |-> "", score |-> "", depth |-> "",
     nodes |-> "", time |-> "", pv |-> <<>>]

\* The locals of one get_best_move call: the engine process its analyse
\* call runs on, the restarts it has made, where its move came from,
\* whether the GUI's watchdog has given up waiting for it, what
\* suggest_move_thread has scheduled for display, the time_limit the caller
\* asked for, the time_limit _analyze_position is called with, the time
\* of the Limit handed to engine.analyse (0 before the call), the result
\* _format_move_info is given and the info dictionary it returns.
NoAn ==
    [proc |-> NoEngine, restarts |-> 0, source |-> "none",
     abandoned |-> FALSE, shown |-> "none", request |-> 0, time_limit |-> 0,
     budget |-> 0, result |-> EmptyResult, info |-> NoInfo]

\* ChessGUI.__init__ and create_widgets: the three buttons are created
\* enabled, is_browser_open is False.
InitGui ==
    [open_browser_btn |-> "normal", update_board_btn |-> "normal",
     analyze_btn |-> "normal", is_browser_open |-> FALSE]

\* show_error: the three buttons are set to state="normal".
ShowError(g) ==
    [g EXCEPT !.open_browser_btn = "normal", !.update_board_btn = "normal",
              !.analyze_btn = "normal"]

\* Present with show_error leaving the buttons as they are.
Present_ErrorKeepsButtons(g, shown) ==
    CASE shown = "board" -> [g EXCEPT !.update_board_btn = "normal"]
      [] shown = "suggestion" -> [g EXCEPT !.analyze_btn = "normal"]
      [] OTHER -> g

\* display_board_update, display_move_suggestion or show_error run on the
\* presentation thread.
Present(g, shown) ==
    CASE shown = "board" -> [g EXCEPT !.update_board_btn = "normal"]
      [] shown = "suggestion" -> [g EXCEPT !.analyze_btn = "normal"]
      [] shown = "error" -> ShowError(g)
      [] OTHER -> g

Init ==
    /\ driver = FALSE
    /\ board = InitBoard
    /\ engine = NoEngine
    /\ user_color = "None"
    /\ move_history = <<>>
    /\ initial_board_set = FALSE
    /\ auto_update_enabled = FALSE
    /\ auto_update_thread = 0
    /\ auto_update_interval = default_interval
    /\ update_callback = "None"
    /\ auto_suggest_moves = FALSE
    /\ suggestion_callback = "None"
    /\ stop_event = FALSE
    /\ pc = [t \in Threads |-> IF t = GuiThread THEN "idle" ELSE "unborn"]
    /\ wk = [w \in Workers |-> InitWorker]
    /\ ub = [t \in Threads |-> NoUb]
    /\ ret = [t \in Threads |-> NoRet]
    /\ in_gbm = [t \in Threads |-> FALSE]
    /\ client_pc = "idle"
    /\ start_result = "none"
    /\ live_procs = {}
    /\ an = [t \in Threads |-> NoAn]
    /\ session_lost = FALSE
    /\ widget_access = "none"
    /\ set_color_result = "none"
    /\ open_result = "none"
    /\ gui = InitGui
    /\ page = <<>>


(* ------------------------ update_board_from_moves ---------------------- *)

\* Where update_board_from_moves returns to: get_best_move's automatic
\* update, the poller's tick, or the GUI's worker thread.
UbReturnPc(t) ==
    IF in_gbm[t] THEN "gbm_check"
    ELSE IF t \in Workers THEN "commit" ELSE "gui_ub_ret"

\* What _scrape_move_list returns: what the page shows, or [] when every
\* call on the driver raises (no driver, session lost).
ScrapeResults(pages) == IF driver /\ ~session_lost THEN pages ELSE {<<>>}

\* moves_changed
MovesChanged(moves) ==
    \/ ~initial_board_set
    \/ Len(moves) # Len(move_history)
    \/ moves # move_history

\* NoDriver with the check left out.
NoDriver_Never == FALSE

\* if not self.driver
NoDriver == ~driver

\* The driver check, the scrape, the comparison with move_history and, on
\* a change, the reset of the board.
UB_Scrape(t, pages) ==
    /\ pc[t] = "ub_scrape"
    /\ IF NoDriver
       THEN /\ ret' = [ret EXCEPT ![t] = [NoRet EXCEPT !.raised = TRUE]]
            /\ pc' = [pc EXCEPT ![t] = UbReturnPc(t)]
            /\ UNCHANGED <<board, ub>>
       ELSE \E moves \in ScrapeResults(pages) :
              IF MovesChanged(moves)
              THEN /\ board' = InitBoard
                   /\ ub' = [ub EXCEPT ![t] =
                               [moves |-> moves, i |-> 1, applied |-> <<>>]]
                   /\ pc' = [pc EXCEPT ![t] = "ub_apply"]
                   /\ UNCHANGED ret
              ELSE /\ ret' = [ret EXCEPT ![t] =
                               [raised |-> FALSE, board |-> board,
                                moves |-> move_history]]
                   /\ ub' = [ub EXCEPT ![t] =
                               [moves |-> moves, i |-> 0, applied |-> <<>>]]
                   /\ pc' = [pc EXCEPT ![t] = UbReturnPc(t)]
                   /\ UNCHANGED board
    /\ UNCHANGED <<driver, engine, user_color, move_history,
                   initial_board_set, auto_update_enabled, auto_update_thread,
                   auto_update_interval, update_callback, auto_suggest_moves,
                   suggestion_callback, stop_event, wk, in_gbm, client_pc,
                   start_result>>
    /\ UNCHANGED auxVars

\* SkipToken leaving the loop at the token that does not parse.
SkipToken_Break(u) == [u EXCEPT !.i = Len(u.moves) + 1]

\* except (ValueError, chess.InvalidMoveError): continue
SkipToken(u) == [u EXCEPT !.i = u.i + 1]

\* One turn of the replay loop: parse the token on self.board and push
\* it, or skip it.
UB_Apply(t) ==
    /\ pc[t] = "ub_apply"
    /\ LET u == ub[t] IN
       IF u.i > Len(u.moves)
       THEN /\ pc' = [pc EXCEPT ![t] = "ub_hist"]
            /\ UNCHANGED <<board, ub>>
       ELSE IF Legal(board, u.moves[u.i])
       THEN /\ board' = Push(board, u.moves[u.i])
            /\ ub' = [ub EXCEPT ![t].i = u.i + 1,
                                ![t].applied = Append(u.applied, u.moves[u.i])]
            /\ UNCHANGED pc
       ELSE /\ ub' = [ub EXCEPT ![t] = SkipToken(u)]
            /\ UNCHANGED <<board, pc>>
    /\ UNCHANGED <<driver, engine, user_color, move_history,
                   initial_board_set, auto_update_enabled, auto_update_thread,
                   auto_update_interval, update_callback, auto_suggest_moves,
                   suggestion_callback, stop_event, wk, ret, in_gbm,
                   client_pc, start_result>>
    /\ UNCHANGED auxVars

\* self.move_history = applied_moves; self.initial_board_set = True
UB_Hist(t) ==
    /\ pc[t] = "ub_hist"
    /\ move_history' = ub[t].applied
    /\ initial_board_set' = TRUE
    /\ pc' = [pc EXCEPT ![t] = "ub_turn"]
    /\ UNCHANGED <<driver, board, engine, user_color, auto_update_enabled,
                   auto_update_thread, auto_update_interval, update_callback,
                   auto_suggest_moves, suggestion_callback, stop_event, wk,
                   ub, ret, in_gbm, client_pc, start_result>>
    /\ UNCHANGED auxVars

\* An exception inside the try block of update_board_from_moves, other
\* than a token that does not parse: raise ChessBotError("Failed to update
\* board from moves: ...").
UB_Except(t) ==
    /\ pc[t] = "ub_apply"
    /\ ret' = [ret EXCEPT ![t] = [NoRet EXCEPT !.raised = TRUE]]
    /\ ub' = [ub EXCEPT ![t].i = 0, ![t].applied = <<>>]
    /\ pc' = [pc EXCEPT ![t] = UbReturnPc(t)]
    /\ UNCHANGED <<botVars, wk, in_gbm, client_pc, start_result>>
    /\ UNCHANGED auxVars

\* SetCorrectTurn with the user's colour in place of the parity.
SetCorrectTurn_UserColor(b) == [b EXCEPT !.turn = (user_color = "white")]

\* _set_correct_turn: the side to move from the parity of move_history.
SetCorrectTurn(b) == [b EXCEPT !.turn = (Len(move_history) % 2 = 0)]

\* _set_correct_turn(), then return self.board, applied_moves
UB_Turn(t) ==
    /\ pc[t] = "ub_turn"
    /\ board' = SetCorrectTurn(board)
    /\ ret' = [ret EXCEPT ![t] =
                 [raised |-> FALSE, board |-> board', moves |-> ub[t].applied]]
    /\ ub' = [ub EXCEPT ![t].i = 0, ![t].applied = <<>>]
    /\ pc' = [pc EXCEPT ![t] = UbReturnPc(t)]
    /\ UNCHANGED <<driver, engine, user_color, move_history,
                   initial_board_set, auto_update_enabled, auto_update_thread,
                   auto_update_interval, update_callback, auto_suggest_moves,
                   suggestion_callback, stop_event, wk, in_gbm, client_pc,
                   start_result>>
    /\ UNCHANGED auxVars

(* --------------------------- _auto_update_worker ----------------------- *)

\* significant_change
SignificantChange(count, hash, w) ==
    \/ count # wk[w].last_move_count
    \/ hash # wk[w].last_moves_hash

\* UpdateGate without the comparison with the last accepted state.
UpdateGate_NoChangeCheck(count, hash, w) ==
    /\ hash # NoneHash
    /\ wk[w].time_since_last_update >= min_update_interval

\* UpdateGate without the minimum spacing.
UpdateGate_NoSpacing(count, hash, w) ==
    /\ count # wk[w].last_move_count \/ hash # wk[w].last_moves_hash
    /\ hash # NoneHash

\* The condition under which the tick calls update_board_from_moves.
UpdateGate(count, hash, w) ==
    /\ SignificantChange(count, hash, w)
    /\ hash # NoneHash
    /\ wk[w].time_since_last_update >= min_update_interval

\* CommitNeeded that finds nothing new.
CommitNeeded_Never(moves, w) == FALSE

\* CommitNeeded without the second comparison.
CommitNeeded_Always(moves, w) == TRUE

\* The condition under which the replayed moves are committed.
CommitNeeded(moves, w) ==
    \/ Len(moves) # wk[w].last_move_count
    \/ MovesHash(moves) # wk[w].last_moves_hash

\* wait_time of the worker's except handler.
BackoffWait(errors, interval) ==
    IF errors >= max_errors
    THEN Min(interval * backoff_factor, max_wait_time)
    ELSE interval

\* WaitPc as a plain sleep, which does not look at the event.
WaitPc_PlainSleep == "wait"

\* self._stop_auto_update.wait(timeout): returns at once when the event is
\* set, blocks otherwise.
WaitPc == IF stop_event THEN "woken" ELSE "wait"

\* The thread starts: the locals before the loop.
W_Begin(w) ==
    /\ pc[w] = "start"
    /\ wk' = [wk EXCEPT ![w] =
                [InitWorker EXCEPT !.last_move_count = Len(move_history)]]
    /\ pc' = [pc EXCEPT ![w] = "loop"]
    /\ UNCHANGED <<botVars, ub, ret, in_gbm, client_pc, start_result>>
    /\ UNCHANGED auxVars

\* The loop condition and current_time = time.time(): at least the time
\* waited has passed since the previous tick took the time.
W_Loop(w) ==
    /\ pc[w] = "loop"
    /\ IF auto_update_enabled /\ ~stop_event
       THEN /\ \E since \in 0..min_update_interval :
                 /\ since >= Min(min_update_interval,
                                 (IF wk[w].outcome = "committed" THEN 0
                                  ELSE wk[w].time_since_last_update)
                                     + wk[w].wait_time)
                 /\ wk' = [wk EXCEPT ![w].time_since_last_update = since,
                                     ![w].wait_time = 0,
                                     ![w].outcome = "none",
                                     ![w].cb_fired = FALSE,
                                     ![w].sug_fired = FALSE,
                                     ![w].error_sink = "none"]
            /\ pc' = [pc EXCEPT ![w] = "scrape"]
       ELSE /\ pc' = [pc EXCEPT ![w] = "done"]
            /\ UNCHANGED wk
    /\ UNCHANGED <<botVars, ub, ret, in_gbm, client_pc, start_result>>
    /\ UNCHANGED auxVars

\* The tick's scrape and the gate; the tick's wait when the gate is shut.
W_Scrape(w, pages) ==
    /\ pc[w] = "scrape"
    /\ \E current_moves \in ScrapeResults(pages) :
         LET count == Len(current_moves)
             hash == MovesHash(current_moves)
             rep == IF hash = wk[w].scrape_hash
                    THEN (IF SignificantChange(count, hash, w)
                          THEN "pending" ELSE "accepted")
                    ELSE "no"
             seen == [wk[w] EXCEPT !.scrape_hash = hash, !.repeat = rep]
         IN IF UpdateGate(count, hash, w)
            THEN /\ wk' = [wk EXCEPT ![w] = seen]
                 /\ pc' = [pc EXCEPT ![w] = "ub_scrape"]
            ELSE /\ wk' = [wk EXCEPT ![w] =
                             [seen EXCEPT
                                !.outcome = "skipped",
                                !.wait_time = auto_update_interval]]
                 /\ pc' = [pc EXCEPT ![w] = WaitPc]
    /\ UNCHANGED <<botVars, ub, ret, in_gbm, client_pc, start_result>>
    /\ UNCHANGED auxVars

\* An exception reaches the worker's outer handler: the counter, the
\* backoff, the wait before the retry.
W_Except(w) ==
    /\ pc[w] = "scrape"
    /\ wk' = [wk EXCEPT
                ![w].error_count = Min(@ + 1, MaxErrorCount),
                ![w].outcome = "raised",
                ![w].error_sink = "stdout",
                ![w].scrape_hash = NoScrape,
                ![w].repeat = "no",
                ![w].wait_time =
                    BackoffWait(Min(wk[w].error_count + 1, MaxErrorCount),
                                auto_update_interval)]
    /\ pc' = [pc EXCEPT ![w] = WaitPc]
    /\ UNCHANGED <<botVars, ub, ret, in_gbm, client_pc, start_result>>
    /\ UNCHANGED auxVars

\* The game on the page goes on or a new game is begun: the move list is
\* another prefix of the game.
PageChanges ==
    /\ \E n \in 0..MaxLen :
         /\ Prefix(n) # page
         /\ page' = Prefix(n)
    /\ UNCHANGED <<botVars, pc, wk, ub, ret, in_gbm, client_pc, start_result,
                   live_procs, an, session_lost, widget_access,
                   set_color_result, open_result, gui>>

\* Is it the user's turn on the returned board, with auto-suggest on?
SuggestDue(b) ==
    /\ auto_suggest_moves
    /\ user_color # "None"
    /\ (user_color = "white") = b.turn

\* A callback that raises an exception whenever it is called.
RaisingCallback == "raisingCallback"
Raises(callback) == callback = RaisingCallback

\* CallbackEscapes without the try statement around the call.
CallbackEscapes_Uncaught(callback) == Raises(callback)

\* try: self.update_callback(board, moves) / except Exception: print(...):
\* does an exception of the callback leave the statement?
CallbackEscapes(callback) == FALSE

\* update_board_from_moves has returned or raised: the second comparison,
\* the commit, the update callback, the decision to auto-suggest. An
\* exception that left the callback's try statement would be counted by the
\* handler of the reconciliation.
W_Commit(w) ==
    /\ pc[w] = "commit"
    /\ IF ret[w].raised
       THEN /\ wk' = [wk EXCEPT
                        ![w].error_count = Min(@ + 1, MaxErrorCount),
                        ![w].failed_ticks = Min(@ + 1, MaxErrorCount),
                        ![w].outcome = "failed",
                        ![w].error_sink = "stdout",
                        ![w].wait_time = auto_update_interval]
            /\ pc' = [pc EXCEPT ![w] = WaitPc]
            /\ UNCHANGED in_gbm
       ELSE IF CommitNeeded(ret[w].moves, w)
       THEN LET done == [wk[w] EXCEPT
                           !.last_move_count = Len(ret[w].moves),
                           !.last_moves_hash = MovesHash(ret[w].moves),
                           !.error_count = 0,
                           !.failed_ticks = 0,
                           !.outcome = "committed",
                           !.cb_fired = (update_callback # "None")]
            IN IF CallbackEscapes(update_callback)
               THEN /\ wk' = [wk EXCEPT ![w] =
                                [done EXCEPT
                                   !.error_count = 1,
                                   !.error_sink = "stdout",
                                   !.wait_time = auto_update_interval]]
                    /\ pc' = [pc EXCEPT ![w] = WaitPc]
                    /\ UNCHANGED in_gbm
               ELSE IF SuggestDue(ret[w].board)
               THEN /\ wk' = [wk EXCEPT ![w] = done]
                    /\ in_gbm' = [in_gbm EXCEPT ![w] = TRUE]
                    /\ pc' = [pc EXCEPT ![w] = "gbm"]
               ELSE /\ wk' = [wk EXCEPT ![w] =
                                [done EXCEPT
                                   !.wait_time = auto_update_interval]]
                    /\ pc' = [pc EXCEPT ![w] = WaitPc]
                    /\ UNCHANGED in_gbm
       ELSE /\ wk' = [wk EXCEPT
                        ![w].failed_ticks = 0,
                        ![w].outcome = "same",
                        ![w].wait_time = auto_update_interval]
            /\ pc' = [pc EXCEPT ![w] = WaitPc]
            /\ UNCHANGED in_gbm
    /\ an' = IF pc'[w] = "gbm"
             THEN [an EXCEPT ![w].request = auto_suggest_time_limit]
             ELSE an
    /\ ret' = [ret EXCEPT ![w] = NoRet]
    /\ ub' = [ub EXCEPT ![w] = NoUb]
    /\ UNCHANGED <<botVars, client_pc, start_result, live_procs,
                   session_lost, widget_access>>
    /\ UNCHANGED <<set_color_result, open_result, gui, page>>

\* get_best_move has returned or raised: the suggestion callback, the wait.
W_Suggested(w) ==
    /\ pc[w] = "gbm_ret"
    /\ wk' = [wk EXCEPT
                ![w].sug_fired =
                    (~ret[w].raised /\ suggestion_callback # "None"),
                ![w].error_sink =
                    IF ret[w].raised THEN "stdout" ELSE @,
                ![w].wait_time = auto_update_interval]
    /\ pc' = [pc EXCEPT ![w] = WaitPc]
    /\ ret' = [ret EXCEPT ![w] = NoRet]
    /\ an' = [an EXCEPT ![w] = NoAn]
    /\ UNCHANGED <<botVars, ub, in_gbm, client_pc, start_result, live_procs,
                   session_lost, widget_access>>
    /\ UNCHANGED <<set_color_result, open_result, gui, page>>

\* The wait timed out with the event clear: the next turn of the loop.
W_Timeout(w) ==
    /\ pc[w] = "wait"
    /\ pc' = [pc EXCEPT ![w] = "loop"]
    /\ UNCHANGED <<botVars, wk, ub, ret, in_gbm, client_pc, start_result>>
    /\ UNCHANGED auxVars

\* The wait returned True: break, and the thread ends.
W_Break(w) ==
    /\ pc[w] = "woken"
    /\ pc' = [pc EXCEPT ![w] = "done"]
    /\ UNCHANGED <<botVars, wk, ub, ret, in_gbm, client_pc, start_result>>
    /\ UNCHANGED auxVars

(* ------------------------------ get_best_move ------------------------- *)

\* Where get_best_move returns to: the poller's auto-suggestion or the
\* GUI's analysis thread.
GbmReturnPc(t) == IF t \in Workers THEN "gbm_ret" ELSE "gui_gbm_ret"

\* What follows start_engine and the automatic update in get_best_move.
AfterEngineStart == IF initial_board_set THEN "gbm_check" ELSE "ub_scrape"

\* get_best_move raises: the error goes to the caller.
GbmRaise(t) ==
    /\ ret' = [ret EXCEPT ![t] = [NoRet EXCEPT !.raised = TRUE]]
    /\ in_gbm' = [in_gbm EXCEPT ![t] = FALSE]
    /\ pc' = [pc EXCEPT ![t] = GbmReturnPc(t)]

\* if not self.engine: self.start_engine(), which finds no engine to quit;
\* otherwise on to the automatic update.
GBM_Begin(t) ==
    /\ pc[t] = "gbm"
    /\ pc' = [pc EXCEPT ![t] =
                IF engine = NoEngine THEN "se_spawn" ELSE AfterEngineStart]
    /\ UNCHANGED <<botVars, wk, ub, ret, in_gbm, client_pc, start_result,
                   auxVars>>

Max(a, b) == IF a >= b THEN a ELSE b

\* time_limit = max(0.1, min(time_limit, 10.0))
ClampTimeLimit(t) == Max(min_time_limit, Min(t, max_time_limit))

\* The time of the Limit _analyze_position gives to engine.analyse.
EngineLimit(t) == Min(t, engine_time_cap)

\* The time_limit _analyze_position calls itself with after a restart.
RestartLimit(t) == Min(t, restart_time_cap)

\* The process popen_uci spawns: one that does not exist and that nothing
\* refers to.
FreeProcs ==
    {p \in ProcIds : /\ p \notin live_procs
                     /\ p # engine
                     /\ \A t \in Threads : an[t].proc # p}

FirstFree == CHOOSE p \in FreeProcs : \A q \in FreeProcs : p <= q

\* start_engine from popen_uci on: the new process is assigned to
\* self.engine, or ChessBotError when it cannot be started. After a restart
\* _analyze_position calls itself and analyses on the new engine.
SE_Spawn(t) ==
    /\ pc[t] = "se_spawn"
    /\ \E started \in BOOLEAN :
         IF started /\ FreeProcs # {}
         THEN /\ live_procs' = live_procs \union {FirstFree}
              /\ engine' = FirstFree
              /\ IF an[t].restarts > 0
                 THEN /\ an' = [an EXCEPT
                                  ![t].proc = FirstFree,
                                  ![t].time_limit = RestartLimit(@),
                                  ![t].budget =
                                      EngineLimit(
                                          RestartLimit(an[t].time_limit))]
                      /\ pc' = [pc EXCEPT ![t] = "gbm_analyse"]
                 ELSE /\ pc' = [pc EXCEPT ![t] = AfterEngineStart]
                      /\ UNCHANGED an
              /\ UNCHANGED <<ret, in_gbm>>
         ELSE /\ GbmRaise(t)
              /\ UNCHANGED <<engine, live_procs, an>>
    /\ UNCHANGED <<driver, board, user_color, move_history, initial_board_set,
                   auto_update_enabled, auto_update_thread,
                   auto_update_interval, update_callback, auto_suggest_moves,
                   suggestion_callback, stop_event, wk, ub, client_pc,
                   start_result, session_lost, widget_access>>
    /\ UNCHANGED <<set_color_result, open_result, gui, page>>

\* SetUserTurn with the parity of move_history in place of the user's
\* colour.
SetUserTurn_Parity(b) == [b EXCEPT !.turn = (Len(move_history) % 2 = 0)]

\* self.board.turn = chess.WHITE if self.user_color.lower() == 'white'
\* else chess.BLACK
SetUserTurn(b) == [b EXCEPT !.turn = (user_color = "white")]

\* The user colour check, the turn set to the user's colour on
\* self.board, _validate_position, the copy the engine analyses and the
\* call of self.engine.analyse.
GBM_Check(t) ==
    /\ pc[t] = "gbm_check"
    /\ IF user_color = "None"
       THEN /\ GbmRaise(t)
            /\ UNCHANGED <<board, an>>
       ELSE /\ board' = SetUserTurn(board)
            /\ IF LegalMoves(board') = {}
               THEN /\ GbmRaise(t)
                    /\ UNCHANGED an
               ELSE /\ ret' = [ret EXCEPT ![t] =
                                 [raised |-> FALSE, board |-> board',
                                  moves |-> <<>>]]
                    /\ an' = [an EXCEPT
                                ![t].proc = engine,
                                ![t].time_limit =
                                    ClampTimeLimit(an[t].request),
                                ![t].budget =
                                    EngineLimit(
                                        ClampTimeLimit(an[t].request))]
                    /\ pc' = [pc EXCEPT ![t] = "gbm_analyse"]
                    /\ UNCHANGED in_gbm
    /\ ub' = [ub EXCEPT ![t] = NoUb]
    /\ UNCHANGED <<driver, engine, user_color, move_history,
                   initial_board_set, auto_update_enabled, auto_update_thread,
                   auto_update_interval, update_callback, auto_suggest_moves,
                   suggestion_callback, stop_event, wk, client_pc,
                   start_result, live_procs, session_lost, widget_access>>
    /\ UNCHANGED <<set_color_result, open_result, gui, page>>

\* move.uci()
Uci(move) ==
    CASE move = "e4" -> "e2e4" [] move = "e5" -> "e7e5"
      [] move = "Nf3" -> "g1f3" [] move = "Nc6" -> "b8c6"
      [] move = "Bb5" -> "f1b5" [] OTHER -> "0000"

\* board.san(move), and move.uci() when it raises
San(b, move) == IF Legal(b, move) THEN move ELSE Uci(move)

\* result.get(key, "Unknown")
ResultGet(result, key) ==
    IF key \in DOMAIN result.aux THEN result.aux[key] ELSE "Unknown"

\* The loop over result["pv"][:3]: the SAN of each move while the moves are
\* legal on pv_board.
RECURSIVE PvSans(_, _, _)
PvSans(b, pv, i) ==
    IF i > Min(3, Len(pv)) THEN <<>>
    ELSE IF Legal(b, pv[i])
    THEN <<pv[i]>> \o PvSans(Push(b, pv[i]), pv, i + 1)
    ELSE <<>>

\* FirstThree without the limit.
FirstThree_All(s) == s

\* safe_pv[:3]
FirstThree(s) == SubSeq(s, 1, Min(3, Len(s)))

\* _format_move_info
FormatMoveInfo(move, result, b) ==
    LET move_san == San(b, move)
        safe_pv == <<move_san>> \o PvSans(b, result.pv, 1)
    IN [move_uci |-> Uci(move),
        move_san |-> move_san,
        score |-> ResultGet(result, "score"),
        depth |-> ResultGet(result, "depth"),
        nodes |-> ResultGet(result, "nodes"),
        time |-> ResultGet(result, "time"),
        pv |-> FirstThree(safe_pv)]

\* A response of the engine with every field and the best move alone as
\* its principal variation.
FullAux == {[k \in AuxFields |-> "reported"]}
NoContinuation == {<<>>}

\* engine.analyse returns a principal variation whose first move is legal
\* on the analysed copy: best_move followed by one of conts, with the
\* fields of one of auxs.
GBM_Analyse(t, auxs, conts) ==
    /\ pc[t] = "gbm_analyse"
    /\ an[t].proc \in live_procs
    /\ \E best_move \in LegalMoves(ret[t].board), aux \in auxs,
          cont \in conts :
         LET result == [aux |-> aux, pv |-> <<best_move>> \o cont] IN
           /\ ret' = [ret EXCEPT ![t].moves = <<best_move>>]
           /\ an' = [an EXCEPT
                       ![t].source = "engine",
                       ![t].result = result,
                       ![t].info =
                           FormatMoveInfo(best_move, result, ret[t].board)]
    /\ in_gbm' = [in_gbm EXCEPT ![t] = FALSE]
    /\ pc' = [pc EXCEPT ![t] = GbmReturnPc(t)]
    /\ UNCHANGED <<botVars, wk, ub, client_pc, start_result, live_procs,
                   session_lost, widget_access>>
    /\ UNCHANGED <<set_color_result, open_result, gui, page>>

\* legal_moves[0]
FirstLegal(b) ==
    CHOOSE m \in LegalMoves(b) :
        \A n \in LegalMoves(b) : TokenCode(m) <= TokenCode(n)

\* The analysis gives no move: the engine returns an empty pv, and the
\* first legal move of the copy is returned; or the call raises (a dead
\* pipe, self.engine None) and the first legal move of self.board is
\* returned, or ChessBotError when it has none.
GBM_Fallback(t) ==
    /\ pc[t] = "gbm_analyse"
    /\ \E kind \in {"no_pv", "error"} :
         /\ kind = "no_pv" => an[t].proc \in live_procs
         /\ LET b == IF kind = "no_pv" THEN ret[t].board ELSE board
            IN IF LegalMoves(b) = {}
               THEN /\ GbmRaise(t)
                    /\ UNCHANGED an
               ELSE /\ ret' = [ret EXCEPT ![t].moves = <<FirstLegal(b)>>]
                    /\ an' = [an EXCEPT
                                ![t].source = "fallback",
                                ![t].result = EmptyResult,
                                ![t].info =
                                    FormatMoveInfo(FirstLegal(b),
                                                   EmptyResult, b)]
                    /\ in_gbm' = [in_gbm EXCEPT ![t] = FALSE]
                    /\ pc' = [pc EXCEPT ![t] = GbmReturnPc(t)]
    /\ UNCHANGED <<botVars, wk, ub, client_pc, start_result, live_procs,
                   session_lost, widget_access>>
    /\ UNCHANGED <<set_color_result, open_result, gui, page>>

\* EngineTerminatedError: self.engine = None, start_engine(), and
\* _analyze_position calls itself; at the recursion limit the call raises.
GBM_Terminated(t) ==
    /\ pc[t] = "gbm_analyse"
    /\ an[t].proc # NoEngine
    /\ an[t].proc \notin live_procs
    /\ engine' = NoEngine
    /\ IF an[t].restarts < MaxRestarts
       THEN /\ an' = [an EXCEPT ![t].restarts = @ + 1, ![t].proc = NoEngine]
            /\ pc' = [pc EXCEPT ![t] = "se_spawn"]
            /\ UNCHANGED <<ret, in_gbm>>
       ELSE /\ GbmRaise(t)
            /\ an' = [an EXCEPT ![t].proc = NoEngine]
    /\ UNCHANGED <<driver, board, user_color, move_history, initial_board_set,
                   auto_update_enabled, auto_update_thread,
                   auto_update_interval, update_callback, auto_suggest_moves,
                   suggestion_callback, stop_event, wk, ub, client_pc,
                   start_result, live_procs, session_lost, widget_access>>
    /\ UNCHANGED <<set_color_result, open_result, gui, page>>

\* An engine process ends by itself.
EngineDies ==
    /\ \E p \in live_procs : live_procs' = live_procs \ {p}
    /\ UNCHANGED <<botVars, pc, wk, ub, ret, in_gbm, client_pc, start_result,
                   an, session_lost, widget_access>>
    /\ UNCHANGED <<set_color_result, open_result, gui, page>>

(* --------------------------- the GUI's threads ------------------------- *)

\* update_board: update_board_thread calls update_board_from_moves().
G_UpdateBoard ==
    /\ pc[GuiThread] = "idle"
    /\ pc' = [pc EXCEPT ![GuiThread] = "ub_scrape"]
    /\ an' = [an EXCEPT ![GuiThread] = NoAn]
    /\ widget_access' = "thread"
    /\ gui' = [gui EXCEPT !.update_board_btn = "disabled"]
    /\ UNCHANGED <<botVars, wk, ub, ret, in_gbm, client_pc, start_result,
                   live_procs, session_lost>>
    /\ UNCHANGED <<set_color_result, open_result, page>>

\* suggest_move: analysis_worker calls
\* get_best_move(time_limit=analysis_time).
G_SuggestMove(analysis_time) ==
    /\ pc[GuiThread] = "idle"
    /\ pc' = [pc EXCEPT ![GuiThread] = "gbm"]
    /\ in_gbm' = [in_gbm EXCEPT ![GuiThread] = TRUE]
    /\ an' = [an EXCEPT ![GuiThread] =
                [NoAn EXCEPT !.request = analysis_time]]
    /\ widget_access' = "thread"
    /\ gui' = [gui EXCEPT !.analyze_btn = "disabled"]
    /\ UNCHANGED <<botVars, wk, ub, ret, client_pc, start_result,
                   live_procs, session_lost>>
    /\ UNCHANGED <<set_color_result, open_result, page>>

\* What suggest_move_thread schedules with self.after when the analysis
\* thread ends: display_move_suggestion for a result, show_error for an
\* error; nothing more once the watchdog has made it return.
Display(t) ==
    IF an[t].abandoned THEN an[t].shown
    ELSE IF ret[t].raised THEN "error"
    ELSE IF pc[t] = "gui_gbm_ret" THEN "suggestion"
    ELSE "board"

\* The thread hands its result or its error to the presentation thread.
G_Return ==
    /\ pc[GuiThread] \in {"gui_ub_ret", "gui_gbm_ret"}
    /\ pc' = [pc EXCEPT ![GuiThread] = "idle"]
    /\ ret' = [ret EXCEPT ![GuiThread] = NoRet]
    /\ ub' = [ub EXCEPT ![GuiThread] = NoUb]
    /\ an' = [an EXCEPT ![GuiThread] =
                [NoAn EXCEPT !.shown = Display(GuiThread)]]
    /\ widget_access' =
         IF an[GuiThread].abandoned THEN widget_access ELSE "main"
    /\ gui' = IF an[GuiThread].abandoned THEN gui
              ELSE Present(gui, Display(GuiThread))
    /\ UNCHANGED <<botVars, wk, in_gbm, client_pc, start_result, live_procs,
                   session_lost>>
    /\ UNCHANGED <<set_color_result, open_result, page>>

\* suggest_move_thread's join has timed out with the analysis thread still
\* alive: the engine is quit, self.chess_bot.engine = None, and the error
\* is scheduled on the presentation thread.
G_Watchdog ==
    /\ pc[GuiThread] \in {"gbm", "se_spawn", "ub_scrape", "ub_apply",
                          "ub_hist", "ub_turn", "gbm_check", "gbm_analyse"}
    /\ in_gbm[GuiThread]
    /\ ~an[GuiThread].abandoned
    /\ live_procs' = live_procs \ {engine}
    /\ engine' = NoEngine
    /\ an' = [an EXCEPT ![GuiThread].abandoned = TRUE,
                        ![GuiThread].shown = "error"]
    /\ widget_access' = "main"
    /\ gui' = ShowError(gui)
    /\ UNCHANGED <<driver, board, user_color, move_history, initial_board_set,
                   auto_update_enabled, auto_update_thread,
                   auto_update_interval, update_callback, auto_suggest_moves,
                   suggestion_callback, stop_event, pc, wk, ub, ret, in_gbm,
                   client_pc, start_result, session_lost>>
    /\ UNCHANGED <<set_color_result, open_result, page>>

\* on_browser_started
OnBrowserStarted(g) ==
    [g EXCEPT !.is_browser_open = TRUE, !.open_browser_btn = "disabled",
              !.update_board_btn = "normal", !.analyze_btn = "normal"]

\* start_browser, the command of the 'Open Chess.com' button: the button
\* is disabled and start_browser_thread is started.
G_StartBrowser ==
    /\ client_pc = "idle"
    /\ gui.open_browser_btn = "normal"
    /\ gui' = [gui EXCEPT !.open_browser_btn = "disabled"]
    /\ client_pc' = "start_browser"
    /\ UNCHANGED <<botVars, pc, wk, ub, ret, in_gbm, start_result,
                   live_procs, an, session_lost, widget_access,
                   set_color_result, open_result, page>>

\* start_browser_thread: start_driver, which returns at once when there is
\* a driver, and open_chess_com; then on_browser_started, or show_error
\* when one of the two has raised.
G_BrowserStarted ==
    /\ client_pc = "start_browser"
    /\ \E outcome \in {"no_driver", "no_page", "ready"} :
         /\ outcome = "no_driver" => ~driver
         /\ outcome = "ready" => (~driver \/ ~session_lost)
         /\ driver' = (driver \/ outcome # "no_driver")
         /\ session_lost' = (driver /\ session_lost)
         /\ open_result' = CASE outcome = "no_driver" -> open_result
                              [] outcome = "no_page" -> "raised"
                              [] OTHER -> "returned"
         /\ gui' = IF outcome = "ready" THEN OnBrowserStarted(gui)
                   ELSE ShowError(gui)
    /\ client_pc' = "idle"
    /\ UNCHANGED <<board, engine, user_color, move_history,
                   initial_board_set, auto_update_enabled, auto_update_thread,
                   auto_update_interval, update_callback, auto_suggest_moves,
                   suggestion_callback, stop_event, pc, wk, ub, ret, in_gbm,
                   start_result, live_procs, an, widget_access,
                   set_color_result, page>>

(* ----------------------- the caller of the ChessBot -------------------- *)

\* self.auto_update_thread.is_alive()
IsAlive(w) == w # 0 /\ pc[w] \notin {"unborn", "done"}

\* The thread is inside a call that can outlast join(timeout=1.0): a
\* scrape or an engine evaluation.
Busy(w) == w # 0 /\ pc[w] \in {"scrape", "ub_scrape", "gbm_analyse"}

StartDriver ==
    /\ client_pc = "idle"
    /\ ~driver
    /\ driver' = TRUE
    /\ UNCHANGED <<board, engine, user_color, move_history,
                   initial_board_set, auto_update_enabled, auto_update_thread,
                   auto_update_interval, update_callback, auto_suggest_moves,
                   suggestion_callback, stop_event, pc, wk, ub, ret, in_gbm,
                   client_pc, start_result, live_procs, an, widget_access>>
    /\ session_lost' = FALSE
    /\ UNCHANGED <<set_color_result, open_result, gui, page>>

\* The browser window is closed or the browser dies: the driver object
\* stays, and every call on it raises.
LoseSession ==
    /\ driver
    /\ ~session_lost
    /\ session_lost' = TRUE
    /\ UNCHANGED <<botVars, pc, wk, ub, ret, in_gbm, client_pc, start_result,
                   live_procs, an, widget_access>>
    /\ UNCHANGED <<set_color_result, open_result, gui, page>>

\* AlreadyRunning without the check.
AlreadyRunning_Never == FALSE

\* if self.auto_update_enabled: return
AlreadyRunning == auto_update_enabled

\* start_auto_update; the new thread takes the first free one of slots.
StartAutoUpdate(callback, interval, auto_suggest, slots) ==
    /\ client_pc = "idle"
    /\ IF AlreadyRunning
       THEN /\ start_result' = "already_running"
            /\ UNCHANGED <<auto_update_enabled, auto_update_thread,
                           auto_update_interval, update_callback,
                           auto_suggest_moves, stop_event, pc>>
       ELSE IF NoDriver
       THEN /\ start_result' = "raised"
            /\ UNCHANGED <<auto_update_enabled, auto_update_thread,
                           auto_update_interval, update_callback,
                           auto_suggest_moves, stop_event, pc>>
       ELSE \E w \in slots :
              /\ pc[w] = "unborn"
              /\ \A v \in slots : v < w => pc[v] # "unborn"
              /\ update_callback' = callback
              /\ auto_update_interval' = interval
              /\ auto_suggest_moves' = auto_suggest
              /\ auto_update_enabled' = TRUE
              /\ stop_event' = FALSE
              /\ auto_update_thread' = w
              /\ pc' = [pc EXCEPT ![w] = "start"]
              /\ start_result' = "started"
    /\ UNCHANGED <<driver, board, engine, user_color, move_history,
                   initial_board_set, suggestion_callback, wk, ub, ret,
                   in_gbm, client_pc>>
    /\ UNCHANGED auxVars

\* open_chess_com: ChessBotError without a driver; with one the page is
\* loaded, or ChessBotError when driver.get or the wait for the board
\* raises. No field of the ChessBot is assigned.
OpenChessCom ==
    /\ client_pc = "idle"
    /\ IF NoDriver
       THEN open_result' = "raised"
       ELSE \E loaded \in BOOLEAN :
              open_result' = IF loaded /\ ~session_lost THEN "returned"
                             ELSE "raised"
    /\ UNCHANGED <<botVars, pc, wk, ub, ret, in_gbm, client_pc, start_result,
                   live_procs, an, session_lost, widget_access,
                   set_color_result, gui, page>>

\* self._stop_auto_update.set(): the flag, and every thread blocked in
\* wait() returns True.
Signal(p) == [t \in Threads |-> IF p[t] = "wait" THEN "woken" ELSE p[t]]

\* stop_auto_update up to the join; close() starts with the same call.
StopBegin(closing) ==
    /\ client_pc = "idle"
    /\ IF ~auto_update_enabled
       THEN /\ client_pc' = IF closing THEN "close_rest" ELSE "idle"
            /\ UNCHANGED <<auto_update_enabled, stop_event, pc>>
       ELSE /\ auto_update_enabled' = FALSE
            /\ stop_event' = TRUE
            /\ pc' = Signal(pc)
            /\ client_pc' =
                 IF IsAlive(auto_update_thread)
                 THEN (IF closing THEN "close_join" ELSE "join")
                 ELSE (IF closing THEN "close_rest" ELSE "idle")
    /\ UNCHANGED <<driver, board, engine, user_color, move_history,
                   initial_board_set, auto_update_thread,
                   auto_update_interval, update_callback, auto_suggest_moves,
                   suggestion_callback, wk, ub, ret, in_gbm, start_result>>
    /\ UNCHANGED auxVars

StopAutoUpdate == StopBegin(FALSE)

Close == StopBegin(TRUE)

\* self.auto_update_thread.join(timeout=1.0) returns: the thread has
\* ended, or the second has passed with the thread inside a long call.
JoinReturns ==
    /\ client_pc \in {"join", "close_join"}
    /\ ~IsAlive(auto_update_thread) \/ Busy(auto_update_thread)
    /\ client_pc' = IF client_pc = "join" THEN "idle" ELSE "close_rest"
    /\ UNCHANGED <<botVars, pc, wk, ub, ret, in_gbm, start_result>>
    /\ UNCHANGED auxVars

\* The rest of close(): the engine is quit, then the driver.
CloseRest ==
    /\ client_pc = "close_rest"
    /\ live_procs' = live_procs \ {engine}
    /\ engine' = NoEngine
    /\ driver' = FALSE
    /\ client_pc' = "idle"
    /\ UNCHANGED <<board, user_color, move_history, initial_board_set,
                   auto_update_enabled, auto_update_thread,
                   auto_update_interval, update_callback, auto_suggest_moves,
                   suggestion_callback, stop_event, pc, wk, ub, ret, in_gbm,
                   start_result, an, widget_access>>
    /\ session_lost' = FALSE
    /\ UNCHANGED <<set_color_result, open_result, gui, page>>

\* start_engine called by the owner of the ChessBot: the engine there is
\* is quit, then the new process is assigned, or ChessBotError.
StartEngine ==
    /\ client_pc = "idle"
    /\ \E started \in BOOLEAN :
         IF started /\ FreeProcs # {}
         THEN /\ live_procs' = (live_procs \ {engine}) \union {FirstFree}
              /\ engine' = FirstFree
         ELSE /\ live_procs' = live_procs \ {engine}
              /\ UNCHANGED engine
    /\ UNCHANGED <<driver, board, user_color, move_history, initial_board_set,
                   auto_update_enabled, auto_update_thread,
                   auto_update_interval, update_callback, auto_suggest_moves,
                   suggestion_callback, stop_event, pc, wk, ub, ret, in_gbm,
                   client_pc, start_result, an, session_lost, widget_access>>
    /\ UNCHANGED <<set_color_result, open_result, gui, page>>

\* color.lower()
Lower(color) ==
    CASE color \in {"White", "WHITE", "wHiTe"} -> "white"
      [] color \in {"Black", "BLACK"} -> "black"
      [] color = "Red" -> "red"
      [] OTHER -> color

\* ValidColor taking the argument as it is.
ValidColor_CaseSensitive(color) == color \in {"white", "black"}

\* color.lower() in ['white', 'black']
ValidColor(color) == Lower(color) \in {"white", "black"}

\* set_user_color: the colour in lower case is stored, or ChessBotError.
\* A call that changes neither the colour nor how the last call ended is
\* left out.
SetUserColor(color) ==
    /\ client_pc = "idle"
    /\ IF ValidColor(color)
       THEN /\ user_color' = Lower(color)
            /\ set_color_result' = "returned"
       ELSE /\ set_color_result' = "raised"
            /\ UNCHANGED user_color
    /\ <<user_color, set_color_result>>' # <<user_color, set_color_result>>
    /\ UNCHANGED <<driver, board, engine, move_history, initial_board_set,
                   auto_update_enabled, auto_update_thread,
                   auto_update_interval, update_callback, auto_suggest_moves,
                   suggestion_callback, stop_event, pc, wk, ub, ret, in_gbm,
                   client_pc, start_result, live_procs, an, session_lost,
                   widget_access, open_result, gui, page>>

SetSuggestionCallback(callback) ==
    /\ client_pc = "idle"
    /\ suggestion_callback # callback
    /\ suggestion_callback' = callback
    /\ UNCHANGED <<driver, board, engine, user_color, move_history,
                   initial_board_set, auto_update_enabled, auto_update_thread,
                   auto_update_interval, update_callback, auto_suggest_moves,
                   stop_event, pc, wk, ub, ret, in_gbm, client_pc,
                   start_result>>
    /\ UNCHANGED auxVars

\* update_update_interval: the GUI slider writes auto_update_interval.
UpdateUpdateInterval(value) ==
    /\ client_pc = "idle"
    /\ auto_update_interval # value
    /\ auto_update_interval' = value
    /\ UNCHANGED <<driver, board, engine, user_color, move_history,
                   initial_board_set, auto_update_enabled, auto_update_thread,
                   update_callback, auto_suggest_moves, suggestion_callback,
                   stop_event, pc, wk, ub, ret, in_gbm, client_pc,
                   start_result>>
    /\ UNCHANGED auxVars

(* --------------------------- the specifications ------------------------ *)

\* The steps of thread t inside update_board_from_moves.
UpdateCall(t, pages) ==
    \/ UB_Scrape(t, pages)
    \/ UB_Apply(t)
    \/ UB_Hist(t)
    \/ UB_Turn(t)

\* The steps of thread t inside get_best_move.
BestMoveCall(t) ==
    \/ GBM_Begin(t)
    \/ SE_Spawn(t)
    \/ GBM_Check(t)
    \/ GBM_Analyse(t, FullAux, NoContinuation)

\* The steps of thread t when the analysis gives no move or finds the
\* engine process gone.
EngineFailure(t) ==
    \/ GBM_Fallback(t)
    \/ GBM_Terminated(t)

\* The loop of poller thread w.
Tick(w, pages) ==
    \/ W_Begin(w)
    \/ W_Loop(w)
    \/ W_Scrape(w, pages)
    \/ W_Commit(w)
    \/ W_Timeout(w)
    \/ W_Break(w)
    \/ UpdateCall(w, pages)

\* The GUI's update_board and suggest_move threads.
Gui ==
    \/ G_UpdateBoard
    \/ G_SuggestMove(default_analysis_time)
    \/ G_Return
    \/ UpdateCall(GuiThread, Pages)
    \/ BestMoveCall(GuiThread)
    \/ EngineFailure(GuiThread)

\* start_auto_update and stop_auto_update, as the caller makes them.
StartStop(callbacks, intervals, suggests, slots) ==
    \/ \E callback \in callbacks, interval \in intervals,
          auto_suggest \in suggests :
            StartAutoUpdate(callback, interval, auto_suggest, slots)
    \/ StopAutoUpdate
    \/ JoinReturns

\* The browser session: start_driver and close.
Session ==
    \/ StartDriver
    \/ Close
    \/ CloseRest

\* One poller with auto-suggestion, polling faster and slower than the
\* minimum spacing, and the caller.
Next ==
    \/ Tick(1, Pages)
    \/ W_Suggested(1)
    \/ BestMoveCall(1)
    \/ EngineFailure(1)
    \/ StartStop(Callbacks, {1, default_interval}, BOOLEAN, {1})
    \/ Session
    \/ \E color \in Colors : SetUserColor(color)
    \/ \E callback \in SuggestionCallbacks : SetSuggestionCallback(callback)

Spec == Init /\ [][Next]_vars

\* One poller whose ticks can raise, polling at every interval.
NextBackoff ==
    \/ Tick(1, Pages)
    \/ W_Except(1)
    \/ StartStop({"onBoardUpdated"}, Intervals, {FALSE}, {1})
    \/ Session
    \/ \E value \in SliderValues : UpdateUpdateInterval(value)

SpecBackoff == Init /\ [][NextBackoff]_vars

\* The GUI's threads and the settings they read.
NextGui ==
    \/ Gui
    \/ Session
    \/ \E color \in Colors : SetUserColor(color)

SpecGui == Init /\ [][NextGui]_vars

\* The pages the pollers of NextThreads see.
FewPages == {Prefix(n) : n \in 0..1}

\* Every poller thread the caller can create, started and stopped at will.
NextThreads ==
    \/ \E w \in Workers : Tick(w, FewPages)
    \/ StartStop(Callbacks, {1, default_interval}, {FALSE}, Workers)
    \/ Session

SpecThreads == Init /\ [][NextThreads]_vars

\* Every poller thread with auto-suggestion for White, at the default
\* interval.
NextStop ==
    \/ \E w \in Workers : Tick(w, FewPages)
    \/ \E w \in Workers : W_Suggested(w)
    \/ \E w \in Workers : BestMoveCall(w)
    \/ StartStop({"onBoardUpdated"}, {default_interval}, {TRUE}, Workers)
    \/ StartDriver
    \/ SetUserColor("white")

\* The threads are scheduled, and a scrape or an engine evaluation returns.
FairStop ==
    /\ Init
    /\ [][NextStop]_vars
    /\ \A w \in Workers :
         WF_vars(Tick(w, FewPages) \/ W_Suggested(w) \/ BestMoveCall(w))

\* The GUI's threads with an engine that can die, the watchdog and
\* start_engine.
NextEngine ==
    \/ Gui
    \/ G_Watchdog
    \/ EngineDies
    \/ StartEngine
    \/ Session
    \/ \E color \in Colors : SetUserColor(color)

SpecEngine == Init /\ [][NextEngine]_vars

\* One poller with auto-suggestion next to the GUI's suggest_move, on one
\* engine that works.
NextSuggest ==
    \/ Tick(1, FewPages)
    \/ W_Suggested(1)
    \/ BestMoveCall(1)
    \/ G_SuggestMove(default_analysis_time)
    \/ G_Return
    \/ UpdateCall(GuiThread, FewPages)
    \/ BestMoveCall(GuiThread)
    \/ StartStop({"onBoardUpdated"}, {default_interval}, {TRUE}, {1})
    \/ StartDriver
    \/ \E color \in Colors : SetUserColor(color)

SpecSuggest == Init /\ [][NextSuggest]_vars

\* One poller on a browser session that can be lost.
NextSession ==
    \/ Tick(1, Pages)
    \/ StartStop({"onBoardUpdated"}, {default_interval}, {FALSE}, {1})
    \/ Session
    \/ LoseSession

SpecSession == Init /\ [][NextSession]_vars

\* The time_limit arguments get_best_move is called with.
TimeLimits == 0..MaxTimeLimit

\* get_best_move called with every time_limit, on an engine that can die.
NextBudget ==
    \/ \E time_limit \in TimeLimits : G_SuggestMove(time_limit)
    \/ G_Return
    \/ UpdateCall(GuiThread, FewPages)
    \/ BestMoveCall(GuiThread)
    \/ GBM_Terminated(GuiThread)
    \/ EngineDies
    \/ StartDriver
    \/ SetUserColor("white")

SpecBudget == Init /\ [][NextBudget]_vars

\* What a scrape can return when the page shows anything at all: every
\* list of tokens, in any order.
AnyPages == UNION {[1..n -> Tokens] : n \in 0..MaxTokens}

\* The GUI's update_board on any page.
NextReplay ==
    \/ G_UpdateBoard
    \/ G_Return
    \/ UpdateCall(GuiThread, AnyPages)
    \/ StartDriver

SpecReplay == Init /\ [][NextReplay]_vars

\* The responses of the engine: any of the fields, and after the best move
\* any tokens.
AnyAux == UNION {[S -> {"reported"}] : S \in SUBSET AuxFields}
AnyContinuation == UNION {[1..n -> Tokens] : n \in 0..(MaxPv - 1)}

\* The GUI's suggest_move on an engine that answers with any response, or
\* with no move.
NextFormat ==
    \/ G_SuggestMove(default_analysis_time)
    \/ G_Return
    \/ UpdateCall(GuiThread, FewPages)
    \/ GBM_Begin(GuiThread)
    \/ SE_Spawn(GuiThread)
    \/ GBM_Check(GuiThread)
    \/ GBM_Analyse(GuiThread, AnyAux, AnyContinuation)
    \/ GBM_Fallback(GuiThread)
    \/ StartDriver
    \/ \E color \in Colors : SetUserColor(color)

SpecFormat == Init /\ [][NextFormat]_vars

\* The arguments set_user_color is called with: the colours in several
\* letter cases, and strings that are no colour.
ColorArgs ==
    {"white", "black", "White", "WHITE", "wHiTe", "Black", "BLACK", "",
     "red", "Red", "None", "w", "whit", "white "}

\* set_user_color with every argument, next to the GUI's threads.
NextColor ==
    \/ \E color \in ColorArgs : SetUserColor(color)
    \/ G_UpdateBoard
    \/ G_SuggestMove(default_analysis_time)
    \/ G_Return
    \/ UpdateCall(GuiThread, FewPages)
    \/ BestMoveCall(GuiThread)
    \/ StartDriver

SpecColor == Init /\ [][NextColor]_vars

\* One poller whose reconciliations can raise.
NextReconcile ==
    \/ Tick(1, Pages)
    \/ UB_Except(1)
    \/ StartStop({"onBoardUpdated"}, {1, default_interval}, {FALSE}, {1})
    \/ Session

SpecReconcile == Init /\ [][NextReconcile]_vars

\* The GUI's suggest_move on an engine whose analysis can fail, next to a
\* poller without auto-suggestion.
NextFallback ==
    \/ G_SuggestMove(default_analysis_time)
    \/ G_Return
    \/ UpdateCall(GuiThread, FewPages)
    \/ BestMoveCall(GuiThread)
    \/ GBM_Fallback(GuiThread)
    \/ Tick(1, FewPages)
    \/ StartStop({"onBoardUpdated"}, {default_interval}, {FALSE}, {1})
    \/ StartDriver
    \/ \E color \in Colors : SetUserColor(color)

SpecFallback == Init /\ [][NextFallback]_vars

\* The operations that need the browser, called with and without a driver:
\* the GUI's update_board, the caller's start_auto_update and
\* open_chess_com, and a poller that outlives close().
NextNoDriver ==
    \/ G_UpdateBoard
    \/ G_Return
    \/ UpdateCall(GuiThread, FewPages)
    \/ Tick(1, FewPages)
    \/ StartStop({"onBoardUpdated"}, {default_interval}, {FALSE}, {1})
    \/ OpenChessCom
    \/ Session

SpecNoDriver == Init /\ [][NextNoDriver]_vars

\* One poller, with and without auto-suggestion, whose update callback and
\* suggestion callback raise.
NextCallbacks ==
    \/ Tick(1, FewPages)
    \/ W_Suggested(1)
    \/ BestMoveCall(1)
    \/ StartStop({RaisingCallback}, {default_interval}, BOOLEAN, {1})
    \/ SetSuggestionCallback(RaisingCallback)
    \/ StartDriver
    \/ \E color \in Colors : SetUserColor(color)

SpecCallbacks == Init /\ [][NextCallbacks]_vars

\* The GUI with its three buttons: the browser is started from the
\* 'Open Chess.com' button, the board is updated and moves are suggested.
NextBrowser ==
    \/ G_StartBrowser
    \/ G_BrowserStarted
    \/ G_UpdateBoard
    \/ G_SuggestMove(default_analysis_time)
    \/ G_Return
    \/ UpdateCall(GuiThread, FewPages)
    \/ BestMoveCall(GuiThread)
    \/ GBM_Fallback(GuiThread)
    \/ \E color \in Colors : SetUserColor(color)

SpecBrowser == Init /\ [][NextBrowser]_vars

\* One poller that is started and not stopped, polling faster and slower
\* than the minimum spacing, on a page whose move list changes.
NextDelivery ==
    \/ W_Begin(1)
    \/ W_Loop(1)
    \/ W_Scrape(1, {page})
    \/ UpdateCall(1, {page})
    \/ W_Commit(1)
    \/ W_Timeout(1)
    \/ PageChanges
    \/ StartDriver
    \/ \E interval \in {1, default_interval} :
         StartAutoUpdate("onBoardUpdated", interval, FALSE, {1})

\* The steps of the poller's thread.
PollerSteps ==
    \/ W_Begin(1)
    \/ W_Loop(1)
    \/ W_Scrape(1, {page})
    \/ UpdateCall(1, {page})
    \/ W_Commit(1)
    \/ W_Timeout(1)

\* The thread is scheduled, its scrapes return and its waits time out.
FairDelivery ==
    /\ Init
    /\ [][NextDelivery]_vars
    /\ WF_vars(PollerSteps)

\* The GUI's update and analysis threads with an engine that can die and
\* the watchdog of suggest_move_thread.
NextHandBack ==
    \/ G_UpdateBoard
    \/ G_SuggestMove(default_analysis_time)
    \/ G_Return
    \/ G_Watchdog
    \/ UpdateCall(GuiThread, FewPages)
    \/ BestMoveCall(GuiThread)
    \/ EngineFailure(GuiThread)
    \/ EngineDies
    \/ StartDriver
    \/ \E color \in Colors : SetUserColor(color)

\* The steps of the GUI's worker threads.
GuiThreadSteps ==
    \/ G_Return
    \/ G_Watchdog
    \/ UpdateCall(GuiThread, FewPages)
    \/ BestMoveCall(GuiThread)
    \/ EngineFailure(GuiThread)

\* The threads are scheduled and their scrapes return; an evaluation
\* returns, fails, or is given up by the watchdog's join(timeout).
FairHandBack ==
    /\ Init
    /\ [][NextHandBack]_vars
    /\ WF_vars(GuiThreadSteps)

(* ------------------------------- claims -------------------------------- *)

Reconciling(w) ==
    pc[w] \in {"ub_scrape", "ub_apply", "ub_hist", "ub_turn", "commit"}

\* C2: on a tick that starts less than min_update_interval after the tick
\* of the last commit, the poller does not call update_board_from_moves,
\* commits nothing and fires no update callback.
C2_NoReconciliationBeforeSpacing ==
    \A w \in Workers :
        (\/ Reconciling(w)
         \/ wk[w].outcome \in {"committed", "same", "failed"}
         \/ wk[w].cb_fired)
            => wk[w].time_since_last_update >= min_update_interval

\* A tick that came too early has scraped a changed, non-empty sequence
\* and went to its wait without reconciling.
C2_Witness ==
    \E w \in Workers :
        /\ pc[w] = "wait"
        /\ wk[w].outcome = "skipped"
        /\ wk[w].time_since_last_update < min_update_interval
        /\ wk[w].scrape_hash \notin {NoneHash, wk[w].last_moves_hash}

\* C3, as claimed: a scrape of a poll tick that returns no token changes
\* neither self.board, nor self.move_history, nor the poller's last
\* accepted count and fingerprint, and fires no update callback; the
\* scrape inside update_board_from_moves included.
C3_EmptyScrapeChangesNothing ==
    [][\A w \in Workers :
         /\ (/\ pc[w] = "ub_scrape"
             /\ pc'[w] # "ub_scrape"
             /\ ~ret'[w].raised
             /\ ub'[w].moves = <<>>) => board' = board
         /\ (/\ pc[w] = "ub_hist"
             /\ pc'[w] = "ub_turn"
             /\ ub[w].moves = <<>>) => move_history' = move_history
         /\ (/\ pc[w] = "commit"
             /\ pc'[w] # "commit"
             /\ ~ret[w].raised
             /\ ub[w].moves = <<>>) =>
                /\ wk'[w].last_move_count = wk[w].last_move_count
                /\ wk'[w].last_moves_hash = wk[w].last_moves_hash
                /\ ~wk'[w].cb_fired]_vars

\* C4: after the replay the tick commits, and fires the update callback,
\* exactly when the applied moves differ in count or fingerprint from the
\* last accepted ones; otherwise the accepted state stays, no update
\* callback fires and no suggestion is asked for; a suggestion is only
\* forwarded on a tick that committed.
C4_CommitOnlyOnAppliedChange ==
    [][\A w \in Workers :
         /\ (pc[w] = "commit" /\ pc'[w] # "commit" /\ ~ret[w].raised) =>
              LET same == /\ Len(ret[w].moves) = wk[w].last_move_count
                          /\ MovesHash(ret[w].moves) = wk[w].last_moves_hash
              IN /\ same =>
                      /\ wk'[w].last_move_count = wk[w].last_move_count
                      /\ wk'[w].last_moves_hash = wk[w].last_moves_hash
                      /\ wk'[w].outcome = "same"
                      /\ ~wk'[w].cb_fired
                      /\ pc'[w] # "gbm"
                 /\ ~same =>
                      /\ wk'[w].last_move_count = Len(ret[w].moves)
                      /\ wk'[w].last_moves_hash = MovesHash(ret[w].moves)
                      /\ wk'[w].outcome = "committed"
                      /\ wk'[w].cb_fired = (update_callback # "None")
         /\ wk'[w].cb_fired => wk'[w].outcome = "committed"
         /\ wk'[w].sug_fired => wk'[w].outcome = "committed"]_vars

\* A tick whose scrape differed from the accepted state has replayed to
\* the accepted moves and is over without a commit, with a callback set.
C4_Witness ==
    \E w \in Workers :
        /\ pc[w] = "wait"
        /\ wk[w].outcome = "same"
        /\ wk[w].scrape_hash # wk[w].last_moves_hash
        /\ ~wk[w].cb_fired
        /\ update_callback # "None"

\* C5, as claimed: once the error counter has reached max_errors, the wait
\* the except handler computes is longer than the poll interval and at
\* most max_wait_time.
C5_BackoffLongerThanInterval ==
    [][\A w \in Workers :
         (/\ pc[w] = "scrape"
          /\ wk'[w].outcome = "raised"
          /\ wk'[w].error_count >= max_errors) =>
             /\ wk'[w].wait_time > auto_update_interval
             /\ wk'[w].wait_time <= max_wait_time]_vars

\* C6, as claimed: whenever no replay is under way, self.board is the
\* replay of self.move_history, side to move included.
C6_BoardIsReplayOfHistory ==
    (\A t \in Threads : pc[t] \notin {"ub_apply", "ub_hist", "ub_turn"})
        => board = Replay(move_history)

\* C7, as claimed: what update_board_from_moves returns is the replay of
\* the sequence it scraped, whatever the board and the history were.
C7_ResultDependsOnlyOnScrape ==
    (pc[GuiThread] = "gui_ub_ret" /\ ~ret[GuiThread].raised) =>
        /\ ret[GuiThread].board = Replay(ub[GuiThread].moves)
        /\ ret[GuiThread].moves = Replay(ub[GuiThread].moves).stack

\* The thread is inside the worker's loop.
InLoop(w) == pc[w] \notin {"unborn", "start", "woken", "done"}

\* C8, as claimed: at most one worker thread is inside its loop.
C8_AtMostOneWorkerLoop ==
    \A v, w \in Workers : (InLoop(v) /\ InLoop(w)) => v = w

\* C9: a call of start_auto_update while auto_update_enabled is True
\* returns without raising and changes no field and starts no thread.
C9_StartWhileRunningIsNoOp ==
    [][(/\ auto_update_enabled
        /\ \E callback \in Callbacks, interval \in Intervals,
              auto_suggest \in BOOLEAN :
                StartAutoUpdate(callback, interval, auto_suggest, Workers))
          => /\ start_result' = "already_running"
             /\ UNCHANGED <<auto_update_enabled, auto_update_thread,
                            auto_update_interval, update_callback,
                            auto_suggest_moves, stop_event, pc>>]_vars

\* start_auto_update has been called while a poller was active.
C9_Witness ==
    /\ start_result = "already_running"
    /\ auto_update_enabled
    /\ IsAlive(auto_update_thread)

ParityTurn(n) == n % 2 = 0

\* C11, as claimed: after update_board_from_moves has returned, the tick
\* goes on to get_best_move exactly when it has committed, auto-suggest is
\* on, a user colour is set, and the side to move by the parity of the
\* applied moves is the user's.
C11_SuggestByParityOnly ==
    [][\A w \in Workers :
         (pc[w] = "commit" /\ pc'[w] # "commit") =>
            ((pc'[w] = "gbm") <=>
                (/\ wk'[w].outcome = "committed"
                 /\ auto_suggest_moves
                 /\ user_color # "None"
                 /\ (user_color = "white")
                        = ParityTurn(Len(ret[w].moves))))]_vars

\* C12: when update_board_from_moves has replayed a sequence, the side to
\* move of self.board and of the returned board is white exactly when the
\* number of applied moves is even, whatever the user's colour.
C12_TurnIsParityOfApplied ==
    [][\A t \in Threads :
         (pc[t] = "ub_turn" /\ pc'[t] # "ub_turn") =>
            /\ board'.turn = ParityTurn(Len(ub[t].applied))
            /\ ret'[t].board.turn = ParityTurn(Len(ub[t].applied))
            /\ ret'[t].moves = ub[t].applied]_vars

\* A replay of one applied move has returned a board with black to move
\* to a user who plays white.
C12_Witness ==
    /\ pc[GuiThread] = "gui_ub_ret"
    /\ Len(ret[GuiThread].moves) = 1
    /\ ~ret[GuiThread].board.turn
    /\ move_history = ret[GuiThread].moves
    /\ user_color = "white"

\* C13, as claimed: when update_board_from_moves raises, the error counter
\* goes up by one, and when it returns, the error counter is zero, commit
\* or no commit.
C13_ErrorCountResetOnSuccess ==
    [][\A w \in Workers :
         (pc[w] = "commit" /\ pc'[w] # "commit") =>
            IF ret[w].raised
            THEN wk'[w].error_count
                    = Min(wk[w].error_count + 1, MaxErrorCount)
            ELSE wk'[w].error_count = 0]_vars

\* C14, as claimed: one get_best_move call restarts the engine at most
\* once.
C14_AtMostOneRestart == \A t \in Threads : an[t].restarts <= 1

\* C15, as claimed: a move get_best_move returns is the first move of the
\* principal variation the engine gave.
C15_ReturnedMoveIsEngineMove ==
    \A t \in Threads :
        (pc[t] = GbmReturnPc(t) /\ ~ret[t].raised)
            => an[t].source = "engine"

\* C16, as claimed: a scrape the poller makes with the browser session
\* lost ends the polling loop, and the loss is reported.
C16_SessionLossStopsPoller ==
    [][\A w \in Workers :
         (/\ driver
          /\ session_lost
          /\ pc[w] = "scrape"
          /\ pc'[w] # "scrape") =>
             /\ pc'[w] \in {"woken", "done"}
             /\ wk'[w].error_sink # "none"]_vars

\* C17, as claimed: an error of a poll tick is delivered through the error
\* callback.
C17_ErrorsGoToErrorCallback ==
    \A w \in Workers :
        (wk[w].outcome \in {"failed", "raised"} \/ wk[w].error_sink # "none")
            => wk[w].error_sink = "onError"

\* C18, as claimed: no background thread of the GUI reads or changes a
\* presentation widget itself.
C18_WidgetsOnlyOnMainThread == widget_access # "thread"

\* C19, as claimed: at most one thread is inside engine.analyse.
C19_OneEvaluationInFlight ==
    \A t, u \in Threads :
        (pc[t] = "gbm_analyse" /\ pc[u] = "gbm_analyse") => t = u

\* C20, as claimed: every live engine process is the one self.engine
\* refers to, so there is at most one.
C20_OneLiveEngine == \A p \in live_procs : p = engine

\* C21, as claimed: when the watchdog of suggest_move gives up, the engine
\* process is quit, self.engine is None and an error is shown; the
\* abandoned evaluation starts no engine, so that self.engine stays None
\* for the next get_best_move to start a fresh one; and the abandoned
\* evaluation gets no suggestion displayed.
C21_WatchdogTearsDownEngine ==
    [][/\ (~an[GuiThread].abandoned /\ an'[GuiThread].abandoned) =>
            /\ engine' = NoEngine
            /\ engine \notin live_procs'
            /\ an'[GuiThread].shown = "error"
       /\ (an[GuiThread].abandoned /\ pc'[GuiThread] # pc[GuiThread]) =>
            /\ engine' \in {engine, NoEngine}
            /\ an'[GuiThread].shown # "suggestion"]_vars

\* C22, as claimed: the time of the Limit an engine.analyse call of
\* get_best_move is given is the requested time_limit clamped to
\* [0.1, 10.0] seconds.
C22_BudgetIsClampedRequest ==
    \A t \in Threads :
        pc[t] = "gbm_analyse"
            => an[t].budget = ClampTimeLimit(an[t].request)

\* C23, as claimed: get_best_move on a ChessBot with no driver, no user
\* colour, an engine that runs and the starting position on the board
\* does not raise: after its checks it has the engine analyse the position.
C23_FreshBotSuggests ==
    [][(/\ pc[GuiThread] = "gbm_check"
        /\ pc'[GuiThread] # "gbm_check"
        /\ ~driver
        /\ user_color = "None"
        /\ board = InitBoard
        /\ move_history = <<>>
        /\ engine \in live_procs)
           => /\ pc'[GuiThread] = "gbm_analyse"
              /\ ~ret'[GuiThread].raised]_vars

\* C24: update_board_from_moves with a driver does not raise, and the
\* list it returns is the scraped list without the tokens that did not
\* parse in the position the tokens applied before them had produced: a
\* failing token is skipped and the tokens after it are still tried.
C24_FailedTokensAreSkipped ==
    [][(/\ driver
        /\ pc[GuiThread] \in {"ub_scrape", "ub_turn"}
        /\ pc'[GuiThread] = "gui_ub_ret")
           => /\ ~ret'[GuiThread].raised
              /\ ret'[GuiThread].moves
                    = Replay(ub'[GuiThread].moves).stack]_vars

\* A token that does not parse, a move that is applied, a move of the
\* wrong side, and the replay has returned.
C24_Witness ==
    /\ pc[GuiThread] = "gui_ub_ret"
    /\ ~ret[GuiThread].raised
    /\ ub[GuiThread].moves = <<"zz", "e4", "Nf3">>
    /\ ret[GuiThread].moves = <<"e4">>
    /\ move_history = <<"e4">>

C26_InfoIsComplete ==
    \A t \in Threads :
        (pc[t] = GbmReturnPc(t) /\ ~ret[t].raised) =>
            LET info == an[t].info
                result == an[t].result
                move == ret[t].moves[1]
            IN /\ info.move_san = move
               /\ info.move_uci = Uci(move)
               /\ \A key \in AuxFields :
                    info[key] = IF key \in DOMAIN result.aux
                                THEN result.aux[key]
                                ELSE "Unknown"
               /\ Len(info.pv) \in 1..3

\* The engine has answered with the depth alone and a principal variation
\* of three legal moves.
C26_Witness ==
    /\ pc[GuiThread] = "gui_gbm_ret"
    /\ ~ret[GuiThread].raised
    /\ DOMAIN an[GuiThread].result.aux = {"depth"}
    /\ an[GuiThread].result.pv = <<"e4", "e5", "Nf3">>
    /\ an[GuiThread].info.score = "Unknown"
    /\ an[GuiThread].info.depth = "reported"
    /\ Len(an[GuiThread].info.pv) = 3

\* C27, as claimed: the rest of close() leaves the poller disabled, the
\* engine quit and self.engine and self.driver None; and from then on, as
\* long as no driver is started, the poller's thread begins no scrape and
\* no engine call (no start of an engine, no analysis) and self.engine
\* stays None.
C27_CloseTearsDownInOrder ==
    [][/\ (client_pc = "close_rest" /\ client_pc' = "idle") =>
            /\ ~auto_update_enabled'
            /\ live_procs' = live_procs \ {engine}
            /\ engine' = NoEngine
            /\ ~driver'
       /\ (~driver /\ client_pc = "idle") =>
            /\ engine' = engine
            /\ \A w \in Workers :
                 pc'[w] \in {"scrape", "se_spawn", "gbm_analyse"}
                    => pc'[w] = pc[w]]_vars

\* C28: user_color is None, 'white' or 'black' at all times; a call of
\* set_user_color with 'white' or 'black' in any letter case returns and
\* leaves the colour in lower case, and a call with anything else raises
\* and leaves user_color as it was.
C28_UserColorIsEnum ==
    [][/\ user_color' \in {"None", "white", "black"}
       /\ \A color \in ColorArgs :
            (<<SetUserColor(color)>>_vars) =>
               IF color \in {"white", "White", "WHITE", "wHiTe"}
               THEN user_color' = "white" /\ set_color_result' = "returned"
               ELSE IF color \in {"black", "Black", "BLACK"}
               THEN user_color' = "black" /\ set_color_result' = "returned"
               ELSE user_color' = user_color /\ set_color_result' = "raised"]_vars

\* The colour white is stored, and a later call with a string that is no
\* colour has raised and left it.
C28_Witness ==
    /\ user_color = "white"
    /\ set_color_result = "raised"

\* C29, as claimed: when update_board_from_moves has raised on max_errors
\* ticks of the poller in a row, the wait that follows is longer than the
\* poll interval.
C29_BackoffOnFailedReconciliation ==
    [][\A w \in Workers :
         (/\ pc[w] = "commit"
          /\ pc'[w] # "commit"
          /\ wk'[w].failed_ticks >= max_errors) =>
             wk'[w].wait_time > auto_update_interval]_vars

\* C30, as claimed: while a poller runs, the minimum spacing between
\* updates is at most the poll interval, whether the interval came from
\* start_auto_update or from the GUI's slider.
C30_SpacingAtMostInterval ==
    (\E w \in Workers : IsAlive(w))
        => min_update_interval <= auto_update_interval

\* C31, as claimed: a move get_best_move returns is legal in the position
\* it had the engine analyse, the position with the user's colour to move.
C31_ReturnedMoveIsLegal ==
    \A t \in Threads :
        (pc[t] = GbmReturnPc(t) /\ ~ret[t].raised)
            => Legal(ret[t].board, ret[t].moves[1])


\* C32, as claimed: the pv of the info of a move the engine gave is the
\* beginning of the engine's principal variation, at most 3 moves of it in
\* the engine's order: its i-th entry is the i-th move of the line.
C32_PvIsPrefixOfEngineLine ==
    \A t \in Threads :
        (pc[t] = GbmReturnPc(t) /\ ~ret[t].raised
            /\ an[t].source = "engine") =>
            LET pv == an[t].info.pv
                line == an[t].result.pv
            IN /\ Len(pv) <= Min(3, Len(line))
               /\ \A i \in 1..Len(pv) : pv[i] = San(ret[t].board, line[i])
                                        \/ pv[i] = line[i]


\* C33: with self.driver None, start_auto_update, open_chess_com and
\* update_board_from_moves raise ChessBotError and assign nothing: no field
\* of the ChessBot changes (auto_update_enabled, board, move_history,
\* initial_board_set among them) and no poller thread is started.
C33_NoDriverFailsCleanly ==
    [][~driver =>
        /\ (\E callback \in Callbacks, interval \in Intervals,
               auto_suggest \in BOOLEAN :
                 StartAutoUpdate(callback, interval, auto_suggest, Workers))
             => /\ start_result' = "raised"
                /\ UNCHANGED <<botVars, pc>>
        /\ OpenChessCom
             => /\ open_result' = "raised"
                /\ UNCHANGED <<botVars, pc>>
        /\ \A t \in Threads :
             UB_Scrape(t, Pages)
               => /\ ret'[t].raised
                  /\ pc'[t] = UbReturnPc(t)
                  /\ UNCHANGED botVars]_vars

\* Without a driver the three operations have been called: each has
\* raised, and the poller is not enabled.
C33_Witness ==
    /\ ~driver
    /\ start_result = "raised"
    /\ open_result = "raised"
    /\ pc[GuiThread] = "gui_ub_ret"
    /\ ret[GuiThread].raised
    /\ ~auto_update_enabled
    /\ auto_update_thread = 0


\* C34: an exception raised by the update callback or by the suggestion
\* callback is contained. The tick that called a raising update callback
\* keeps its commit (last_move_count, last_moves_hash), leaves error_count
\* at 0, goes on to the auto-suggestion when one is due and otherwise to
\* the wait; the tick that called a raising suggestion callback goes on to
\* the wait with error_count and the committed state as they were.
C34_CallbackErrorsContained ==
    [][\A w \in Workers :
         /\ (W_Commit(w) /\ wk'[w].cb_fired /\ Raises(update_callback)) =>
              /\ wk'[w].outcome = "committed"
              /\ wk'[w].error_count = 0
              /\ wk'[w].last_move_count = Len(ret[w].moves)
              /\ wk'[w].last_moves_hash = MovesHash(ret[w].moves)
              /\ pc'[w] = IF SuggestDue(ret[w].board) THEN "gbm" ELSE WaitPc
         /\ (W_Suggested(w) /\ wk'[w].sug_fired
                 /\ Raises(suggestion_callback)) =>
              /\ wk'[w].error_count = 0
              /\ wk'[w].last_move_count = wk[w].last_move_count
              /\ wk'[w].last_moves_hash = wk[w].last_moves_hash
              /\ pc'[w] = WaitPc]_vars

\* Both callbacks have raised in one tick, and the poller is in its wait
\* with the tick's state committed.
C34_Witness ==
    /\ Raises(update_callback)
    /\ Raises(suggestion_callback)
    /\ wk[1].cb_fired
    /\ wk[1].sug_fired
    /\ wk[1].outcome = "committed"
    /\ wk[1].last_move_count = 1
    /\ pc[1] = "wait"


\* C36, as claimed: the move list a tick of the poller hands to the replay,
\* commits and passes to the update callback is the list the tick scraped
\* and compared with the last accepted state at its start.
C36_TickCommitsWhatItCompared ==
    \A w \in Workers :
        (pc[w] = "commit" /\ ~ret[w].raised)
            => MovesHash(ub[w].moves) = wk[w].scrape_hash


\* C37, as claimed: while stop_auto_update has returned and
\* start_auto_update has not been called again, no poller thread invokes
\* the update callback or the suggestion callback, begins a scrape of
\* update_board_from_moves or begins an engine evaluation.
C37_QuietAfterStop ==
    [][(/\ client_pc = "idle"
        /\ ~auto_update_enabled
        /\ ~auto_update_enabled')
          => \A w \in Workers :
               /\ wk'[w].cb_fired => wk[w].cb_fired
               /\ wk'[w].sug_fired => wk[w].sug_fired
               /\ pc'[w] = "ub_scrape" => pc[w] = "ub_scrape"
               /\ pc'[w] = "gbm_analyse" => pc[w] = "gbm_analyse"]_vars


\* C39, as claimed: once on_browser_started has run (is_browser_open is
\* True) the 'Open Chess.com' button is disabled, whatever updates,
\* analyses and errors follow.
C39_OpenButtonStaysDisabled ==
    gui.is_browser_open => gui.open_browser_btn = "disabled"


\* C38: a button that update_board or suggest_move has disabled is
\* eventually enabled again: whatever the worker thread ends with (a
\* result, ChessBotError, another exception, the watchdog's timeout), a
\* handler that sets the button to state="normal" is run.
C38_ButtonsAreHandedBack ==
    /\ (gui.update_board_btn = "disabled") ~> (gui.update_board_btn = "normal")
    /\ (gui.analyze_btn = "disabled") ~> (gui.analyze_btn = "normal")

\* An analysis has ended with an error, show_error has run and both
\* buttons are enabled.
C38_Witness ==
    /\ pc[GuiThread] = "idle"
    /\ an[GuiThread].shown = "error"
    /\ gui.update_board_btn = "normal"
    /\ gui.analyze_btn = "normal"


\* C35: when the page's move list from some time on is one non-empty
\* list S of legal moves and the poller is running, the update callback is
\* invoked with S as the applied moves, also when the tick that first saw S
\* found the gate shut, and from some time on the poller has S as its
\* accepted state and invokes the update callback no more.
C35_StableListIsDelivered ==
    \A n \in 1..MaxLen :
        <>[](page = Prefix(n) /\ auto_update_enabled)
            => /\ <>(/\ wk[1].cb_fired
                     /\ wk[1].last_moves_hash = MovesHash(Prefix(n))
                     /\ move_history = Prefix(n))
               /\ <>[](/\ ~wk[1].cb_fired
                       /\ wk[1].last_moves_hash = MovesHash(Prefix(n)))

\* A tick has seen the new list with the gate shut and has waited; a
\* later tick has delivered the list.
C35_Witness ==
    /\ page = Prefix(2)
    /\ wk[1].cb_fired
    /\ wk[1].repeat = "pending"
    /\ wk[1].last_moves_hash = MovesHash(Prefix(2))
    /\ move_history = Prefix(2)
    /\ pc[1] = "wait"

=============================================================================
